---- MODULE Spec2Model ----
(***************************************************************************)
(* Model of mdcx/cmd/crawl.py: the root command (main -> _crawl), which    *)
(* dispatches one crawl task per --site onto the shared executor, and the  *)
(* fetch command (fetch -> _fetch_async), which fetches one detail page by *)
(* one of three strategies and saves it.                                   *)
(*                                                                         *)
(* BrowserProvider, executor and AsyncWebClient are imported by crawl.py   *)
(* but defined elsewhere; the operators that stand for them (get_browser,  *)
(* close, wait_all, get_text, _fetch_detail) follow the interfaces of      *)
(* spec.md sections 4.2, 4.1 and 6.                                        *)
(***************************************************************************)
EXTENDS Integers, Sequences, FiniteSets, TLC

\* Largest number of --site options of one root command in the model.
MaxSites == 2

\* Largest length of the URLs enumerated for the fetch command.
MaxUrlLen == 2

\* Largest number of close() calls on one provider when its owner goes on
\* releasing it after the command has ended.
MaxCloseCalls == 3

\* Python's None.  No string the model draws as a value equals this token.
None == "<None>"

\* Members of the Website enum that the model draws --site from.
Website == {"siteA", "siteB"}

\* Websites for which get_crawler() returns None (no GenericBaseCrawler);
\* get_crawler_compat() still returns a LegacyCrawler wrapper for them.
LegacyOnly == {"siteB"}

\* Slots for tasks.  Provider 0 is the BrowserProvider the command constructs;
\* provider i > 0 is the one task i would hold had it constructed its own.
TaskIds == 1..MaxSites
ProviderIds == 0..MaxSites

\* What crawler.run(input) does for one site: a CrawlResult with data, a
\* CrawlResult without data (with or without debug_info.error), or a raise.
RunKinds == {"data", "failed", "failed_noerr", "raise"}

\* Websites whose extraction strategy uses the browser session it is given;
\* the strategy of the others uses the HTTP client only.
BrowserSites == {"siteB"}

\* Outcomes of a future that hold an exception rather than a result.
RaiseKinds == {"raise", "launch_error"}

Pending == [task |-> 0, site |-> None, kind |-> "pending"]

VARIABLES
    cmd,          \* "root" or "fetch": the command typer invoked
    pc,           \* position of the command's own control flow
    exitCode,     \* process exit code once pc = "end", -1 before
    raised,       \* exception that left the command uncaught ("none" if none)
    \* ---- command line of the root command
    sites,        \* --site list; <<>> stands for "sites is None"
    number,       \* --number
    appoint_url,  \* --appoint-url
    output,       \* --output (None or a template)
    \* ---- command line of fetch
    url,          \* the URL argument, a sequence of characters
    site,         \* --site (None or a Website)
    website,      \* site passed to _fetch_async (None until fetch decides it)
    use_browser,  \* --use-browser
    fnumber,      \* --number of fetch (NoStr or a sequence of characters)
    output_path,  \* --output of fetch (NoStr or a sequence of characters)
    \* ---- shared resources
    client,       \* TRUE once an AsyncWebClient has been constructed
    provider,     \* TRUE once a BrowserProvider has been constructed
    browser,      \* per provider: the cached session id, 0 if none
    lock,         \* per provider: task holding the creation lock, 0 if free
    sessions,     \* number of browser sessions launched so far
    live,         \* ids of the sessions launched and not torn down
    closeCalls,   \* number of executions of browser_provider.close()
    \* ---- tasks of _crawl
    tpc,          \* per task: position of the coroutine task(c)
    got,          \* per task: session get_browser() returned, 0 if none
    ran,          \* per task: what its own crawler.run did ("none" before)
    waited,       \* tasks that found the creation lock held
    futures,      \* per task: outcome held by its future
    doneOrder,    \* tasks in the order they reached a terminal state
    reports,      \* per-site blocks printed by _crawl, in print order
    files,        \* paths written by either command
    \* ---- _fetch_async
    strategy,     \* strategy chosen ("none" before)
    html,         \* html of the (html, error) pair
    error,        \* error of the (html, error) pair
    pages,        \* pages opened and not yet released
    leave,        \* how control left the try body ("none" before)
    writes,       \* number of executions of output_file.write_text
    output_file,  \* the path _determine_output_path returned (NoPath before)
    effects,      \* calls fetch made on its collaborators and the file
                  \* system, in order
    detailCall    \* arguments crawler._fetch_detail was invoked with

vars == << cmd, pc, exitCode, raised, sites, number, appoint_url, output,
           website, use_browser, client, provider, browser, lock, sessions,
           live, closeCalls, tpc, got, ran, waited, futures, doneOrder,
           reports, files, strategy, html, error, pages, leave, writes,
           url, site, fnumber, output_path, output_file, effects, detailCall >>

\* The command line, which no step changes.
inputVars == << cmd, sites, number, appoint_url, output, use_browser,
                url, site, fnumber, output_path >>
resourceVars == << client, provider, browser, lock, sessions, live, closeCalls >>
taskVars == << tpc, got, ran, waited, futures, doneOrder >>
fetchVars == << website, strategy, html, error, pages, leave, writes,
               output_file, effects, detailCall >>

Tasks == 1..Len(sites)

----------------------------------------------------------------------------
(* Initial state: typer has parsed the command line and is about to call   *)
(* main (root command) or fetch.                                           *)

SiteLists == UNION { [1..n -> Website] : n \in 0..MaxSites }

\* Character strings of the fetch command are sequences of one-character
\* strings.  NoStr is None for such a string: no string is this sequence.
NoStr == << None >>

\* Characters of the enumerated URLs: two letters, the path separator and
\* the three characters _determine_output_path replaces.
UrlChars == {"A", "B", "/", "=", "?", "&"}

\* The URL of the path derivation example of the specification.
ExampleUrl == << "x", "/", "A", "B", "C", "=", "1", "2", "3", "?", "x", "=", "1" >>

Urls == UNION { [1..n -> UrlChars] : n \in 0..MaxUrlLen } \cup {ExampleUrl}

\* No path has been determined yet.
NoPath == [explicit |-> FALSE, dirs |-> << >>, name |-> NoStr]

\* crawler._fetch_detail has not been invoked.
NoCall == [called |-> FALSE, browser |-> 0, override |-> None]

Init ==
    /\ cmd \in {"root", "fetch"}
    /\ pc = IF cmd = "root" THEN "main" ELSE "fetch_cmd"
    /\ exitCode = -1
    /\ raised = "none"
    /\ IF cmd = "root"
         THEN /\ sites \in SiteLists
              /\ number \in {"", "ABC-123"}
              /\ appoint_url \in {"", "https://x/v/1"}
              /\ output \in {None, "out/{site}.json"}
              /\ url = << >>
              /\ site = None
              /\ use_browser = FALSE
              /\ fnumber = NoStr
              /\ output_path = NoStr
         ELSE /\ sites = << >>
              /\ number = ""
              /\ appoint_url = ""
              /\ output = None
              /\ url \in Urls
              /\ site \in {None} \cup Website
              /\ use_browser \in BOOLEAN
              /\ fnumber \in {NoStr, << >>, << "N", "7" >>}
              /\ output_path \in {NoStr, << >>, << "o", ".", "h" >>}
    /\ website = None
    /\ client = FALSE
    /\ provider = FALSE
    /\ browser = [p \in ProviderIds |-> 0]
    /\ lock = [p \in ProviderIds |-> 0]
    /\ sessions = 0
    /\ live = {}
    /\ closeCalls = 0
    /\ tpc = [i \in TaskIds |-> "none"]
    /\ got = [i \in TaskIds |-> 0]
    /\ ran = [i \in TaskIds |-> "none"]
    /\ waited = {}
    /\ futures = [i \in TaskIds |-> Pending]
    /\ doneOrder = << >>
    /\ reports = << >>
    /\ files = {}
    /\ strategy = "none"
    /\ html = None
    /\ error = ""
    /\ pages = 0
    /\ leave = "none"
    /\ writes = 0
    /\ output_file = NoPath
    /\ effects = << >>
    /\ detailCall = NoCall

----------------------------------------------------------------------------
(* BrowserProvider (mdcx/browser): a single-slot cache of the session,     *)
(* created under a creation lock, torn down by close().                    *)

\* get_browser(): the cached session is returned without relaunching.
Cached(p) == browser[p] # 0

\* get_browser(): the creation lock is free.
LockFree(p) == lock[p] = 0

\* The session a successful launch creates.
NewSession == sessions + 1

\* close(): tears the cached session down; a no-op when there is none.
LiveAfterClose(p) == live \ {browser[p]}

\* close() raises no failure, with or without a cached session.
CloseRaisesWhenEmpty(p) == browser[p] = 0
CloseRaises(p) == FALSE

----------------------------------------------------------------------------
(* Root command: main                                                      *)

\* main: "if sites is None".  typer passes None, never an empty list, when
\* --site is absent.
SitesMissing(s) == s = << >>

\* main: "any((number, appoint_url))".
HasQueryAlways(n, u) == TRUE
HasQuery(n, u) == n # "" \/ u # ""

\* main: both rejections raise typer.Exit(1) before _crawl is called.
MainReject ==
    /\ cmd = "root"
    /\ pc = "main"
    /\ SitesMissing(sites) \/ ~HasQuery(number, appoint_url)
    /\ pc' = "end"
    /\ exitCode' = 1
    /\ UNCHANGED << raised, inputVars, resourceVars, taskVars, reports, files,
                    fetchVars >>

\* main: the call of _crawl.
MainAccept ==
    /\ cmd = "root"
    /\ pc = "main"
    /\ ~SitesMissing(sites)
    /\ HasQuery(number, appoint_url)
    /\ pc' = "crawl"
    /\ UNCHANGED << exitCode, raised, inputVars, resourceVars, taskVars,
                    reports, files, fetchVars >>

----------------------------------------------------------------------------
(* Root command: _crawl                                                    *)

\* _crawl: one AsyncWebClient and one BrowserProvider per call, constructed
\* before any task is submitted.
CrawlSetup ==
    /\ cmd = "root"
    /\ pc = "crawl"
    /\ client' = TRUE
    /\ provider' = TRUE
    /\ pc' = "submit"
    /\ UNCHANGED << exitCode, raised, inputVars, browser, lock, sessions, live,
                    closeCalls, taskVars, reports, files, fetchVars >>

\* task(c) closes over the one browser_provider of _crawl.
ProviderPerTask(i) == i
ProviderOf(i) == 0

\* _crawl: executor.wait_all() stands between the submissions and the loop
\* over the futures.
SkipWaitAll == "report"
AfterSubmit == "wait_all"

\* Number of tasks submitted so far.
Submitted == Cardinality({ i \in Tasks : tpc[i] # "none" })

\* _crawl: "futures = [executor.submit(task(c)) for c in classes]", one
\* submission at a time; tasks already submitted may run in between.
Submit ==
    /\ cmd = "root"
    /\ pc = "submit"
    /\ LET i == Submitted + 1 IN
         /\ i \in Tasks
         /\ tpc' = [tpc EXCEPT ![i] = "submitted"]
         /\ pc' = IF i = Len(sites) THEN AfterSubmit ELSE "submit"
    /\ UNCHANGED << exitCode, raised, inputVars, resourceVars, got, ran, waited,
                    futures, doneOrder, reports, files, fetchVars >>

\* A task reaches a terminal state: its future is settled with outcome f.
Settle(i, f) ==
    /\ futures' = [futures EXCEPT ![i] = f]
    /\ doneOrder' = Append(doneOrder, i)

\* task(c): "await browser_provider.get_browser()", up to the creation lock.
\* Every task calls it, whatever its site.
TaskGetBrowser(i) ==
    /\ cmd = "root"
    /\ i \in Tasks
    /\ tpc[i] \in {"submitted", "lockwait"}
    /\ LET p == ProviderOf(i) IN
         IF ~LockFree(p)
           THEN /\ tpc[i] = "submitted"
                /\ tpc' = [tpc EXCEPT ![i] = "lockwait"]
                /\ waited' = waited \cup {i}
                /\ UNCHANGED << got, lock >>
           ELSE IF Cached(p)
             THEN /\ got' = [got EXCEPT ![i] = browser[p]]
                  /\ tpc' = [tpc EXCEPT ![i] = "run"]
                  /\ UNCHANGED << waited, lock >>
             ELSE /\ lock' = [lock EXCEPT ![p] = i]
                  /\ tpc' = [tpc EXCEPT ![i] = "launching"]
                  /\ UNCHANGED << waited, got >>
    /\ UNCHANGED << pc, exitCode, raised, inputVars, client, provider, browser,
                    sessions, live, closeCalls, ran, futures, doneOrder,
                    reports, files, fetchVars >>

\* task(c): the launch inside get_browser() completes.  A launch that fails
\* raises in the task that attempted it and leaves the provider empty.
TaskLaunch(i) ==
    /\ cmd = "root"
    /\ i \in Tasks
    /\ tpc[i] = "launching"
    /\ LET p == ProviderOf(i) IN
         /\ lock' = [lock EXCEPT ![p] = 0]
         /\ \E ok \in BOOLEAN :
              IF ok
                THEN /\ sessions' = NewSession
                     /\ browser' = [browser EXCEPT ![p] = NewSession]
                     /\ live' = live \cup {NewSession}
                     /\ got' = [got EXCEPT ![i] = NewSession]
                     /\ tpc' = [tpc EXCEPT ![i] = "run"]
                     /\ UNCHANGED << futures, doneOrder >>
                ELSE /\ tpc' = [tpc EXCEPT ![i] = "done"]
                     /\ Settle(i, [task |-> i, site |-> sites[i],
                                   kind |-> "launch_error"])
                     /\ UNCHANGED << sessions, browser, live, got >>
    /\ UNCHANGED << pc, exitCode, raised, inputVars, client, provider,
                    closeCalls, ran, waited, reports, files, fetchVars >>

\* task(c): the crawler is constructed and "await crawler.run(input)"
\* completes with the result, or the exception, of this site's strategy.
TaskRun(i) ==
    /\ cmd = "root"
    /\ i \in Tasks
    /\ tpc[i] = "run"
    /\ \E kind \in RunKinds :
         /\ ran' = [ran EXCEPT ![i] = kind]
         /\ Settle(i, [task |-> i, site |-> sites[i], kind |-> kind])
    /\ tpc' = [tpc EXCEPT ![i] = "done"]
    /\ UNCHANGED << pc, exitCode, raised, inputVars, resourceVars, got, waited,
                    reports, files, fetchVars >>

\* executor.wait_all() returns once every submitted task is terminal.
AllTerminal == \A i \in Tasks : tpc[i] = "done"

WaitAll ==
    /\ cmd = "root"
    /\ pc = "wait_all"
    /\ AllTerminal
    /\ pc' = "report"
    /\ UNCHANGED << exitCode, raised, inputVars, resourceVars, taskVars,
                    reports, files, fetchVars >>

\* _crawl: "for i, f in enumerate(futures)": slot k reads the k-th future
\* submitted.
SlotByCompletion(k) == doneOrder[k]
SlotFuture(k) == k

\* _crawl: "if f.exception(): ... continue".
ExceptionUnchecked(f) == FALSE
ExceptionCaptured(f) == f.kind \in RaiseKinds

\* main returns normally after _crawl: the exit code does not look at the
\* per-site outcomes.
ExitOneOnSiteFailure == IF \E k \in 1..Len(reports) : reports[k].kind # "success"
                          THEN 1 ELSE 0
RootExitCode == 0

\* _crawl: output.replace("{site}", sites[i].value).
RootOutputPath(tmpl, w) == << tmpl, w >>

\* The block printed for slot k from outcome f.
ReportOf(k, f) ==
    [ label |-> sites[k],
      task  |-> f.task,
      kind  |-> CASE f.kind \in RaiseKinds -> "error"
                  [] f.kind = "data" -> "success"
                  [] OTHER -> "failed",
      shown |-> f.kind ]

\* _crawl: one iteration of the loop over the futures.  f.exception() and
\* f.result() block until that future is settled; f.result() re-raises the
\* task's exception; a failing write_text raises out of _crawl.
Report ==
    /\ cmd = "root"
    /\ pc = "report"
    /\ LET k == Len(reports) + 1
           f == futures[SlotFuture(k)]
           last == k = Len(sites)
       IN
         /\ k \in Tasks
         /\ tpc[SlotFuture(k)] = "done"
         /\ IF ExceptionCaptured(f)
              THEN /\ reports' = Append(reports, ReportOf(k, f))
                   /\ pc' = IF last THEN "end" ELSE "report"
                   /\ exitCode' = IF last THEN RootExitCode ELSE exitCode
                   /\ UNCHANGED << raised, files >>
              ELSE IF f.kind \in RaiseKinds
                THEN /\ raised' = "task"
                     /\ pc' = "end"
                     /\ exitCode' = 1
                     /\ UNCHANGED << reports, files >>
                ELSE /\ reports' = Append(reports, ReportOf(k, f))
                     /\ \E writeOk \in BOOLEAN :
                          IF f.kind = "data" /\ output # None /\ ~writeOk
                            THEN /\ raised' = "write"
                                 /\ pc' = "end"
                                 /\ exitCode' = 1
                                 /\ UNCHANGED files
                            ELSE /\ files' = IF f.kind = "data" /\ output # None
                                               THEN files \cup {RootOutputPath(output, sites[k])}
                                               ELSE files
                                 /\ pc' = IF last THEN "end" ELSE "report"
                                 /\ exitCode' = IF last THEN RootExitCode ELSE exitCode
                                 /\ UNCHANGED raised
    /\ UNCHANGED << inputVars, resourceVars, taskVars, fetchVars >>

----------------------------------------------------------------------------
(* fetch command: site detection (fetch, _detect_site_from_url)            *)

\* str.lower() on one character; characters without case are unchanged.
Lower(c) ==
    CASE c = "A" -> "a"
      [] c = "B" -> "b"
      [] c = "C" -> "c"
      [] c = "N" -> "n"
      [] OTHER -> c

\* str.lower().
LowerStr(s) == [i \in 1..Len(s) |-> Lower(s[i])]

\* Python's "sub in s" for strings.
Contains(s, sub) ==
    \E i \in 0..(Len(s) - Len(sub)) : SubSeq(s, i + 1, i + Len(sub)) = sub

\* ManualConfig.WEB_DIC: the keyword -> site mapping, in its iteration order.
WEB_DIC == << [keyword |-> << "a" >>, site |-> "siteA"],
              [keyword |-> << "B" >>, site |-> "siteB"] >>

\* _detect_site_from_url: the loop over WEB_DIC.items() from entry i on,
\* against the lowercased URL.
RECURSIVE DetectFrom(_, _)
DetectFrom(i, url_lower) ==
    IF i > Len(WEB_DIC)
      THEN None
      ELSE IF Contains(url_lower, LowerStr(WEB_DIC[i].keyword))
        THEN WEB_DIC[i].site
        ELSE DetectFrom(i + 1, url_lower)

\* _detect_site_from_url.
DetectCaseSensitive(u) == DetectFrom(1, u)
detect_site_from_url(u) == DetectFrom(1, LowerStr(u))

\* fetch: "if not site: site = _detect_site_from_url(url)", then the call
\* of _fetch_async with that site.
FetchDetect ==
    /\ cmd = "fetch"
    /\ pc = "fetch_cmd"
    /\ website' = IF site = None THEN detect_site_from_url(url) ELSE site
    /\ pc' = "fetch"
    /\ UNCHANGED << exitCode, raised, inputVars, resourceVars, taskVars,
                    reports, files, strategy, html, error, pages, leave,
                    writes, output_file, effects, detailCall >>

----------------------------------------------------------------------------
(* fetch command: _determine_output_path                                   *)

\* --base-dir; the model keeps the default.
base_dir == "tests/crawlers/data"

DotHtml == << ".", "h", "t", "m", "l" >>
DetailHtml == << "d", "e", "t", "a", "i", "l" >> \o DotHtml

\* Truth value of an optional string: None and "" are false.
Truthy(x) == x # NoStr /\ x # << >>

\* str.strip("/").
RECURSIVE StripLeft(_)
StripLeft(s) == IF s # << >> /\ Head(s) = "/" THEN StripLeft(Tail(s)) ELSE s

RECURSIVE StripRight(_)
StripRight(s) ==
    IF s # << >> /\ s[Len(s)] = "/" THEN StripRight(SubSeq(s, 1, Len(s) - 1)) ELSE s

Strip(s) == StripRight(StripLeft(s))

\* str.split("/"): the list of the pieces between separators; [""] for "".
RECURSIVE Split(_)
Split(s) ==
    IF \A i \in 1..Len(s) : s[i] # "/"
      THEN << s >>
      ELSE LET i == CHOOSE j \in 1..Len(s) :
                      s[j] = "/" /\ \A k \in 1..(j - 1) : s[k] # "/"
           IN << SubSeq(s, 1, i - 1) >> \o Split(SubSeq(s, i + 1, Len(s)))

\* str.replace(old, new) for one-character old and new.
Replace(s, old, new) == [i \in 1..Len(s) |-> IF s[i] = old THEN new ELSE s[i]]

\* _determine_output_path: the file name when no number is given.
FilenameFromUrl(u) ==
    LET url_parts == Split(Strip(u)) IN
      IF url_parts # << >>
        THEN LET identifier == url_parts[Len(url_parts)] IN
               Replace(Replace(Replace(identifier, "=", "_"), "?", "_"), "&", "_")
                 \o DotHtml
        ELSE DetailHtml

\* _determine_output_path.  A path is its directories and its file name;
\* Path(output_path) is kept whole in name.
PathWithoutSiteDir(o, u, w, n, base) ==
    IF Truthy(o)
      THEN [explicit |-> TRUE, dirs |-> << >>, name |-> o]
      ELSE [explicit |-> FALSE, dirs |-> << base >>,
            name |-> IF Truthy(n) THEN n \o DotHtml ELSE FilenameFromUrl(u)]
determine_output_path(o, u, w, n, base) ==
    IF Truthy(o)
      THEN [explicit |-> TRUE, dirs |-> << >>, name |-> o]
      ELSE [explicit |-> FALSE,
            dirs |-> IF w # None THEN << base, w >> ELSE << base >>,
            name |-> IF Truthy(n) THEN n \o DotHtml ELSE FilenameFromUrl(u)]

----------------------------------------------------------------------------
(* fetch command: _fetch_async                                             *)

\* str(e) of an exception caught at "except Exception as e" in the browser
\* strategy; Python allows an exception whose text is empty.
ExcTexts == {"", "net::ERR_FAILED"}

\* What page.content() can return.
PageContents == {"", "<html/>"}

\* (html, error) pairs of the collaborators crawler._fetch_detail and
\* AsyncWebClient.get_text: text with no error, or no text with an error.
CollaboratorPairs == { << "<html/>", "" >>, << None, "HTTP 404" >> }

\* _fetch_async: an AsyncWebClient and a BrowserProvider are constructed
\* before the try statement is entered.
FetchSetup ==
    /\ cmd = "fetch"
    /\ pc = "fetch"
    /\ client' = TRUE
    /\ provider' = TRUE
    /\ pc' = "f_try"
    /\ UNCHANGED << exitCode, raised, inputVars, browser, lock, sessions, live,
                    closeCalls, taskVars, reports, files, fetchVars >>

\* get_crawler(website): None for a site without a GenericBaseCrawler.
get_crawler(w) == IF w \in LegacyOnly THEN None ELSE w

\* _fetch_async: the if / elif / else that picks the strategy.
StrategyBrowserFirst(w, b) ==
    CASE b -> "browser"
      [] ~b /\ w # None -> "site"
      [] OTHER -> "http"
StrategyOf(w, b) ==
    CASE w # None -> "site"
      [] w = None /\ b -> "browser"
      [] OTHER -> "http"

\* _fetch_async: "browser=await browser_provider.get_browser() if
\* use_browser else None" of the site strategy.
SiteAcquiresAlways(b) == TRUE
SiteAcquires(b) == b

\* Control leaves the try body in way `kind`: "normal", "return" (html is
\* None), "sysexit" (exit(1)) or "exception" (caught by except Exception).
Leave(kind) ==
    /\ leave' = kind
    /\ pc' = "f_finally"

\* _fetch_async: strategy choice; an unresolved site calls exit(1).
FetchResolve ==
    /\ cmd = "fetch"
    /\ pc = "f_try"
    /\ strategy' = StrategyOf(website, use_browser)
    /\ effects' = IF strategy' = "site" THEN Append(effects, "get_crawler")
                                        ELSE effects
    /\ CASE strategy' = "site" /\ get_crawler(website) = None -> Leave("sysexit")
         [] strategy' = "site" /\ get_crawler(website) # None ->
              /\ pc' = IF SiteAcquires(use_browser) THEN "f_get_browser"
                                                    ELSE "f_detail"
              /\ UNCHANGED leave
         [] strategy' = "browser" ->
              /\ pc' = "f_get_browser"
              /\ UNCHANGED leave
         [] OTHER ->
              /\ pc' = "f_http"
              /\ UNCHANGED leave
    /\ UNCHANGED << exitCode, raised, inputVars, resourceVars, taskVars,
                    reports, files, website, html, error, pages, writes,
                    output_file, detailCall >>

\* _fetch_async: "await browser_provider.get_browser()" of either strategy
\* that uses the browser.  It is outside the inner try, so a launch failure
\* reaches "except Exception" of the outer try.
FetchGetBrowser ==
    /\ cmd = "fetch"
    /\ pc = "f_get_browser"
    /\ \E ok \in BOOLEAN :
         IF Cached(0)
           THEN /\ pc' = IF strategy = "site" THEN "f_detail" ELSE "f_page"
                /\ effects' = Append(effects, "get_browser")
                /\ UNCHANGED << sessions, browser, live, leave >>
           ELSE IF ok
             THEN /\ sessions' = NewSession
                  /\ browser' = [browser EXCEPT ![0] = NewSession]
                  /\ live' = live \cup {NewSession}
                  /\ pc' = IF strategy = "site" THEN "f_detail" ELSE "f_page"
                  /\ effects' = Append(effects, "get_browser")
                  /\ UNCHANGED leave
             ELSE /\ Leave("exception")
                  /\ effects' = effects \o << "get_browser", "launch_failed" >>
                  /\ UNCHANGED << sessions, browser, live >>
    /\ UNCHANGED << exitCode, raised, inputVars, client, provider, lock,
                    closeCalls, taskVars, reports, files, website, strategy,
                    html, error, pages, writes, output_file, detailCall >>

\* The browser the crawler is constructed with: the session get_browser()
\* returned, or None (0) when it was not called.
CrawlerBrowser == IF Contains(effects, << "get_browser" >>) THEN browser[0] ELSE 0

\* _fetch_async: "html, error = await crawler._fetch_detail(..., url, None)";
\* the strategy may also raise.
FetchDetail ==
    /\ cmd = "fetch"
    /\ pc = "f_detail"
    /\ effects' = Append(effects, "fetch_detail")
    /\ detailCall' = [called |-> TRUE, browser |-> CrawlerBrowser,
                      override |-> None]
    /\ \/ \E pair \in CollaboratorPairs :
            /\ html' = pair[1]
            /\ error' = pair[2]
            /\ pc' = "f_check"
            /\ UNCHANGED leave
       \/ /\ Leave("exception")
          /\ UNCHANGED << html, error >>
    /\ UNCHANGED << exitCode, raised, inputVars, resourceVars, taskVars,
                    reports, files, website, strategy, pages, writes,
                    output_file >>

\* _fetch_async: "async with await browser.new_page() as page"; a failure
\* to open the page is caught by the inner except.
FetchNewPage ==
    /\ cmd = "fetch"
    /\ pc = "f_page"
    /\ effects' = Append(effects, "new_page")
    /\ \/ /\ pages' = pages + 1
          /\ pc' = "f_goto"
          /\ UNCHANGED << html, error >>
       \/ \E e \in ExcTexts :
            /\ html' = None
            /\ error' = e
            /\ pc' = "f_check"
            /\ UNCHANGED pages
    /\ UNCHANGED << exitCode, raised, inputVars, resourceVars, taskVars,
                    reports, files, website, strategy, leave, writes,
                    output_file, detailCall >>

\* The exit of "async with ... as page" releases the page, whether the body
\* completed ("ok") or raised ("error").
PagesAfterLeak(outcome) == IF outcome = "ok" THEN pages - 1 ELSE pages
PagesAfter(outcome) == pages - 1

\* _fetch_async: page.goto, page.content and the exit of the async with,
\* which releases the page on the success and on the error path.
FetchNavigate ==
    /\ cmd = "fetch"
    /\ pc = "f_goto"
    /\ effects' = Append(effects, "goto")
    /\ \/ \E content \in PageContents :
            /\ html' = content
            /\ error' = ""
            /\ pages' = PagesAfter("ok")
       \/ \E e \in ExcTexts :
            /\ html' = None
            /\ error' = e
            /\ pages' = PagesAfter("error")
    /\ pc' = "f_check"
    /\ UNCHANGED << exitCode, raised, inputVars, resourceVars, taskVars,
                    reports, files, website, strategy, leave, writes,
                    output_file, detailCall >>

\* _fetch_async: "html, error = await async_client.get_text(url)".
FetchGetText ==
    /\ cmd = "fetch"
    /\ pc = "f_http"
    /\ effects' = Append(effects, "get_text")
    /\ \E pair \in CollaboratorPairs :
         /\ html' = pair[1]
         /\ error' = pair[2]
    /\ pc' = "f_check"
    /\ UNCHANGED << exitCode, raised, inputVars, resourceVars, taskVars,
                    reports, files, website, strategy, pages, leave, writes,
                    output_file, detailCall >>

\* _fetch_async: "if html is None".
HtmlMissingNever(h) == FALSE
HtmlMissing(h) == h = None

\* _fetch_async: "if html is None: ... return".
FetchCheck ==
    /\ cmd = "fetch"
    /\ pc = "f_check"
    /\ IF HtmlMissing(html)
         THEN Leave("return")
         ELSE /\ pc' = "f_save"
              /\ UNCHANGED leave
    /\ UNCHANGED << exitCode, raised, inputVars, resourceVars, taskVars,
                    reports, files, website, strategy, html, error, pages,
                    writes, output_file, effects, detailCall >>

\* The file _determine_output_path names for this call.
FetchOutputFile ==
    determine_output_path(output_path, url, website, fnumber, base_dir)

\* _fetch_async: the output path is determined, the parent directory made
\* and the html written; mkdir or write_text may raise (write_text does
\* when html is None).
FetchSave ==
    /\ cmd = "fetch"
    /\ pc = "f_save"
    /\ output_file' = FetchOutputFile
    /\ \E mkdirOk \in BOOLEAN, writeOk \in BOOLEAN :
         CASE ~mkdirOk ->
                /\ effects' = Append(effects, "determine_output_path")
                /\ Leave("exception")
                /\ UNCHANGED << files, writes >>
           [] mkdirOk /\ (~writeOk \/ html = None) ->
                /\ effects' = effects \o << "determine_output_path", "mkdir" >>
                /\ Leave("exception")
                /\ UNCHANGED << files, writes >>
           [] OTHER ->
                /\ effects' = effects \o << "determine_output_path", "mkdir",
                                            "write_text" >>
                /\ files' = files \cup {output_file'}
                /\ writes' = writes + 1
                /\ Leave("normal")
    /\ UNCHANGED << exitCode, raised, inputVars, resourceVars, taskVars,
                    reports, website, strategy, html, error, pages,
                    detailCall >>

\* The finally clause runs however control left the try body.
ClosesOnNormalOnly(kind) == kind = "normal"
ClosesOn(kind) == kind \in {"normal", "return", "sysexit", "exception"}

\* Exit code of the fetch command: exit(1) for an unresolved site,
\* typer.Exit(1) from the except clause, 0 for a plain return and for
\* normal completion.
ExitCodeOf(kind) == IF kind \in {"sysexit", "exception"} THEN 1 ELSE 0

\* _fetch_async: "finally: await browser_provider.close()", then the
\* command ends.
FetchFinally ==
    /\ cmd = "fetch"
    /\ pc = "f_finally"
    /\ IF ClosesOn(leave)
         THEN /\ live' = LiveAfterClose(0)
              /\ browser' = [browser EXCEPT ![0] = 0]
              /\ closeCalls' = closeCalls + 1
              /\ effects' = Append(effects, "close")
              /\ raised' = IF CloseRaises(0) THEN "close" ELSE raised
              /\ exitCode' = IF CloseRaises(0) THEN 1 ELSE ExitCodeOf(leave)
         ELSE /\ exitCode' = ExitCodeOf(leave)
              /\ UNCHANGED << live, browser, closeCalls, effects, raised >>
    /\ pc' = "end"
    /\ UNCHANGED << inputVars, client, provider, lock, sessions,
                    taskVars, reports, files, website, strategy, html, error,
                    pages, leave, writes, output_file, detailCall >>

\* The scope that owns the provider releases it again after the command has
\* ended: one more "await browser_provider.close()".
ReleaseAgain ==
    /\ pc = "end"
    /\ provider
    /\ closeCalls < MaxCloseCalls
    /\ live' = LiveAfterClose(0)
    /\ browser' = [browser EXCEPT ![0] = 0]
    /\ closeCalls' = closeCalls + 1
    /\ raised' = IF CloseRaises(0) THEN "close" ELSE raised
    /\ UNCHANGED << pc, exitCode, inputVars, client, provider, lock, sessions,
                    taskVars, reports, files, fetchVars >>

----------------------------------------------------------------------------

Next ==
    \/ MainReject
    \/ MainAccept
    \/ CrawlSetup
    \/ Submit
    \/ \E i \in TaskIds : TaskGetBrowser(i)
    \/ \E i \in TaskIds : TaskLaunch(i)
    \/ \E i \in TaskIds : TaskRun(i)
    \/ WaitAll
    \/ Report
    \/ FetchDetect
    \/ FetchSetup
    \/ FetchResolve
    \/ FetchGetBrowser
    \/ FetchDetail
    \/ FetchNewPage
    \/ FetchNavigate
    \/ FetchGetText
    \/ FetchCheck
    \/ FetchSave
    \/ FetchFinally

Spec == Init /\ [][Next]_vars

\* The commands followed by further releases of their provider.
NextReleasing == Next \/ ReleaseAgain

ReleasingSpec == Init /\ [][NextReleasing]_vars

----------------------------------------------------------------------------
(* Properties of the root command                                          *)

\* _crawl has been entered (its resources exist).
CrawlStarted == cmd = "root" /\ provider

\* What task i itself produced: the outcome of its own strategy, or the
\* failure of its own browser launch.
OwnOutcome(i) == IF ran[i] = "none" THEN "launch_error" ELSE ran[i]

\* C1: a dispatch over N sites produces exactly N task outcomes, and the
\* block printed in slot k carries the label sites[k] and the outcome of the
\* task created for sites[k], whatever the order in which the tasks completed;
\* when _crawl returns, all N blocks have been printed.
C1_SlotMatchesSite ==
    (CrawlStarted /\ pc \in {"report", "end"}) =>
        /\ Cardinality({ i \in TaskIds : futures[i].kind # "pending" }) = Len(sites)
        /\ Len(reports) <= Len(sites)
        /\ \A k \in 1..Len(reports) :
             /\ reports[k].label = sites[k]
             /\ reports[k].task = k
             /\ reports[k].shown = futures[k].kind
             /\ futures[k].site = sites[k]
        /\ (pc = "end" /\ raised = "none") => Len(reports) = Len(sites)

\* C1 witness: two tasks completed in the reverse of their submission order
\* and both blocks have been printed.
C1_Witness ==
    /\ CrawlStarted
    /\ pc = "end"
    /\ raised = "none"
    /\ doneOrder = << 2, 1 >>
    /\ Len(reports) = 2
    /\ sites[1] # sites[2]

\* C2: a task that raises is captured in its own slot only: nothing a task
\* raises leaves _crawl, every task is terminal when the reporting starts,
\* every future holds what its own task produced, and every block printed
\* shows the outcome of its own task.
C2_FailureIsolated ==
    CrawlStarted =>
        /\ raised # "task"
        /\ \A i \in Tasks :
             tpc[i] = "done" => /\ futures[i].task = i
                                /\ futures[i].kind = OwnOutcome(i)
        /\ \A k \in 1..Len(reports) : reports[k].shown = OwnOutcome(k)
        /\ (pc = "end" /\ raised = "none") =>
             \A i \in Tasks : /\ tpc[i] = "done"
                              /\ reports[i].shown = OwnOutcome(i)

\* C2 witness: the first of two tasks raised, the second succeeded, and
\* _crawl returned with the second site's success reported.
C2_Witness ==
    /\ CrawlStarted
    /\ pc = "end"
    /\ raised = "none"
    /\ Len(sites) = 2
    /\ ran[1] = "raise"
    /\ reports[1].kind = "error"
    /\ ran[2] = "data"
    /\ reports[2].kind = "success"

\* C3: however the first get_browser() calls of the tasks interleave, at
\* most one session is ever launched, every task that received a session
\* received that one, and a task past get_browser() without a launch failure
\* holds it.
C3_SingleSession ==
    cmd = "root" =>
        /\ sessions <= 1
        /\ Cardinality(live) <= 1
        /\ \A i \in Tasks :
             /\ got[i] # 0 => (got[i] = browser[0] /\ sessions = 1)
             /\ (tpc[i] \in {"run", "done"} /\ futures[i].kind # "launch_error")
                  => got[i] # 0

\* C3 witness: two tasks were in get_browser() at once (one found the
\* creation lock held), and both hold the single session.
C3_Witness ==
    /\ cmd = "root"
    /\ Len(sites) = 2
    /\ waited # {}
    /\ got[1] = 1
    /\ got[2] = 1
    /\ sessions = 1

\* C5: when _crawl has returned, no browser session launched by its provider
\* is still live, and a launched session was released exactly once.
C5_ReleasedAtReturn ==
    (CrawlStarted /\ pc = "end") =>
        /\ live = {}
        /\ sessions > 0 => closeCalls = 1

\* C8: with no --site, or with neither --number nor --appoint-url, the root
\* command ends with exit code 1 and never constructs an HTTP client or a
\* Browser Provider, launches a browser or submits a task.
C8_RejectedBeforeWork ==
    (cmd = "root" /\ (sites = << >> \/ (number = "" /\ appoint_url = ""))) =>
        /\ pc \in {"main", "end"}
        /\ pc = "end" => exitCode = 1
        /\ ~client
        /\ ~provider
        /\ sessions = 0
        /\ \A i \in TaskIds : tpc[i] = "none"

\* C8 witness: sites were given but neither number nor appoint_url, and the
\* command has exited with code 1.
C8_Witness ==
    /\ cmd = "root"
    /\ sites # << >>
    /\ number = ""
    /\ appoint_url = ""
    /\ pc = "end"
    /\ exitCode = 1

\* C9: site failures do not change the exit code: when _crawl returns, every
\* site whose task returned data is reported as success with the payload of
\* its own task, every site whose task raised is reported as an error, and
\* the exit code is 0; a nonzero exit code after _crawl started comes only
\* from a failed write of a success payload.
C9_ExitCodeIgnoresSiteFailures ==
    /\ (CrawlStarted /\ pc = "end" /\ raised = "none") =>
          /\ exitCode = 0
          /\ \A k \in Tasks :
               /\ ran[k] = "data" => (reports[k].kind = "success" /\ reports[k].task = k)
               /\ ran[k] \in {"failed", "failed_noerr"} => reports[k].kind = "failed"
               /\ OwnOutcome(k) \in RaiseKinds => reports[k].kind = "error"
    /\ (CrawlStarted /\ pc = "end" /\ exitCode # 0) => raised = "write"

\* C9 witness: sites [A, B], A returned data and B raised; both are reported
\* and the exit code is 0.
C9_Witness ==
    /\ CrawlStarted
    /\ pc = "end"
    /\ Len(sites) = 2
    /\ Len(reports) = 2
    /\ ran[1] = "data"
    /\ ran[2] = "raise"
    /\ reports[1].kind = "success"
    /\ reports[2].kind = "error"
    /\ exitCode = 0

\* C10: the loop over the futures runs, and a block is printed, only when
\* every submitted task is terminal: a future is never read while a task of
\* the same dispatch is still running.
C10_ReportsAfterAllTerminal ==
    (CrawlStarted /\ (pc = "report" \/ reports # << >>)) =>
        \A i \in 1..Len(sites) : tpc[i] = "done" /\ futures[i].kind # "pending"

\* C10 witness: the reporting loop is about to read the first future of a
\* dispatch whose two tasks contended for the browser.
C10_Witness ==
    /\ CrawlStarted
    /\ pc = "report"
    /\ reports = << >>
    /\ Len(sites) = 2
    /\ waited # {}

\* Task i has called browser_provider.get_browser().
Acquiring(i) == tpc[i] \in {"lockwait", "launching", "run", "done"}

\* C15: a task calls get_browser() only if the strategy of its site needs
\* the browser, and a dispatch over sites none of which needs it launches no
\* session.
C15_LazyAcquire ==
    CrawlStarted =>
        /\ \A i \in Tasks : Acquiring(i) => sites[i] \in BrowserSites
        /\ (\A i \in Tasks : sites[i] \notin BrowserSites) => sessions = 0

\* C16: when _crawl returns from a dispatch in which no browser could be
\* launched, every task whose site does not need the browser has run its
\* strategy and its block shows the outcome of that run.
C16_LaunchFailureSparesOthers ==
    (CrawlStarted /\ pc = "end" /\ sessions = 0) =>
        \A k \in Tasks :
            sites[k] \notin BrowserSites =>
                (ran[k] # "none" /\ reports[k].shown = ran[k])

----------------------------------------------------------------------------
(* Properties of the fetch command                                         *)

\* C4: once a strategy has produced the pair (html, error), html is
\* non-empty if and only if error is empty.
C4_HtmlIffNoError ==
    (cmd = "fetch" /\ pc \in {"f_check", "f_save"}) =>
        ((html # None /\ html # "") <=> error = "")

\* C6: when _fetch_async has terminated, by whatever exit path, close() has
\* executed exactly once and no browser session is live; it does not
\* execute before the try statement is left.
C6_ClosedOnEveryExit ==
    cmd = "fetch" =>
        /\ pc = "end" => (closeCalls = 1 /\ live = {} /\ browser[0] = 0)
        /\ pc # "end" => closeCalls = 0

\* C6 witness: the browser was launched, the write of the file failed, and
\* the command has ended.
C6_Witness ==
    /\ cmd = "fetch"
    /\ pc = "end"
    /\ sessions = 1
    /\ leave = "exception"
    /\ html # None

\* C7: fetch ends with exit code 1 when the site's strategy is unresolved
\* and when the fetch produced a captured error, and with exit code 0 only
\* when html was obtained and written.
C7_ExitCodeOnFetchError ==
    (cmd = "fetch" /\ pc = "end") =>
        /\ leave = "sysexit" => exitCode = 1
        /\ leave = "return" => exitCode = 1
        /\ exitCode = 0 => (html # None /\ writes = 1)

----------------------------------------------------------------------------
(* Properties of site detection and of the output path                     *)

\* Indices of the WEB_DIC entries whose keyword, lowercased, occurs in the
\* lowercased URL u.
KeywordHits(u) ==
    { i \in 1..Len(WEB_DIC) : Contains(LowerStr(u), LowerStr(WEB_DIC[i].keyword)) }

\* C11: when no --site is given, the site fetch continues with is the site
\* of the first WEB_DIC entry, in the mapping's order, whose lowercased
\* keyword occurs in the lowercased URL; when no keyword occurs it is None,
\* and fetch goes on without a site (no exit for an unresolved strategy, one
\* of the two site-less strategies).
C11_FirstKeywordWins ==
    (cmd = "fetch" /\ pc # "fetch_cmd" /\ site = None) =>
        LET hits == KeywordHits(url) IN
          /\ hits # {} =>
               website = WEB_DIC[CHOOSE i \in hits : \A j \in hits : i <= j].site
          /\ hits = {} =>
               /\ website = None
               /\ leave # "sysexit"
               /\ strategy \in {"none", "browser", "http"}

\* C11 witness: the URL "BA" holds both keywords, the second entry's first;
\* the first entry's site was detected, through the case-insensitive match.
C11_Witness ==
    /\ cmd = "fetch"
    /\ site = None
    /\ url = << "B", "A" >>
    /\ website = "siteA"
    /\ pc = "f_try"

\* The final path segment of u: what follows the last "/" once leading and
\* trailing "/" are dropped.
FinalSegment(u) ==
    LET kept == { i \in 1..Len(u) : u[i] # "/" } IN
      IF kept = {}
        THEN << >>
        ELSE LET hi == CHOOSE i \in kept : \A j \in kept : j <= i
                 lo == CHOOSE i \in kept : \A j \in kept : i <= j
                 seps == { i \in lo..hi : u[i] = "/" }
                 cut == IF seps = {} THEN lo - 1
                        ELSE CHOOSE i \in seps : \A j \in seps : j <= i
             IN SubSeq(u, cut + 1, hi)

\* The file name "ABC_123_x_1.html" of the specification's example.
ExampleName ==
    << "A", "B", "C", "_", "1", "2", "3", "_", "x", "_", "1", ".", "h", "t", "m", "l" >>

\* C12: the path fetch determines is the explicit output path when one is
\* given; otherwise its directories are base_dir followed by the site when a
\* site is known, and its name is number + ".html" when a number is given,
\* else the URL's final path segment with "=", "?" and "&" each replaced by
\* "_", followed by ".html"; the example URL with site siteA and no number
\* gives base_dir/siteA/ABC_123_x_1.html.
C12_OutputPathRule ==
    (cmd = "fetch" /\ output_file # NoPath) =>
        IF output_path # NoStr /\ output_path # << >>
          THEN output_file = [explicit |-> TRUE, dirs |-> << >>, name |-> output_path]
          ELSE /\ ~output_file.explicit
               /\ output_file.dirs = IF website = None
                                       THEN << base_dir >>
                                       ELSE << base_dir, website >>
               /\ output_file.name =
                    IF fnumber # NoStr /\ fnumber # << >>
                      THEN fnumber \o DotHtml
                      ELSE LET seg == FinalSegment(url) IN
                             [i \in 1..Len(seg) |->
                                IF seg[i] \in {"=", "?", "&"} THEN "_" ELSE seg[i]]
                               \o DotHtml
               /\ (url = ExampleUrl /\ website = "siteA"
                     /\ (fnumber = NoStr \/ fnumber = << >>))
                    => output_file = [explicit |-> FALSE,
                                      dirs |-> << base_dir, "siteA" >>,
                                      name |-> ExampleName]

\* C12 witness: the example URL, no number, no output path, site siteA, and
\* the path base_dir/siteA/ABC_123_x_1.html was determined.
C12_Witness ==
    /\ cmd = "fetch"
    /\ url = ExampleUrl
    /\ fnumber = NoStr
    /\ output_path = NoStr
    /\ site = "siteA"
    /\ output_file = [explicit |-> FALSE, dirs |-> << base_dir, "siteA" >>,
                      name |-> ExampleName]

\* C18: with no output path and no number, a URL without path segments (the
\* empty URL, or one made of "/" only) gives the file name "detail.html".
C18_DetailHtmlFallback ==
    (/\ cmd = "fetch"
     /\ output_file # NoPath
     /\ (output_path = NoStr \/ output_path = << >>)
     /\ (fnumber = NoStr \/ fnumber = << >>)
     /\ \A i \in 1..Len(url) : url[i] = "/")
        => output_file.name = DetailHtml

----------------------------------------------------------------------------
(* Properties of the strategies of fetch                                   *)

\* The strategy entry points fetch has invoked, in order: the site's
\* _fetch_detail, the browser's new_page, the client's get_text.
StrategyCalls ==
    SelectSeq(effects, LAMBDA e : e \in {"fetch_detail", "new_page", "get_text"})

C17_BrowserErrorsCaptured ==
    (cmd = "fetch" /\ strategy = "browser") =>
        /\ pages = IF pc = "f_goto" THEN 1 ELSE 0
        /\ pc \in {"f_check", "f_save"} =>
             \/ html = None /\ error \in ExcTexts
             \/ html \in PageContents /\ error = ""
        /\ leave = "exception" =>
             \/ Contains(effects, << "launch_failed" >>)
             \/ Contains(effects, << "determine_output_path" >>)

\* C17 witness: navigation raised after the page was opened; the error is
\* captured and the page is released.
C17_Witness ==
    /\ cmd = "fetch"
    /\ strategy = "browser"
    /\ pc = "f_check"
    /\ Contains(effects, << "goto" >>)
    /\ html = None
    /\ error = "net::ERR_FAILED"
    /\ pages = 0

\* File system calls of fetch.
FileCalls ==
    SelectSeq(effects, LAMBDA e : e \in {"determine_output_path", "mkdir", "write_text"})

\* C19: a fetch that ends by the return on a captured error or by exit(1)
\* for an unresolved site has derived no path, made no directory and written
\* no file; no file system call is made while html is None, and the file is
\* written at most once.
C19_NoFileOnError ==
    cmd = "fetch" =>
        /\ leave \in {"return", "sysexit"} =>
             /\ FileCalls = << >>
             /\ output_file = NoPath
             /\ files = {}
             /\ writes = 0
        /\ FileCalls # << >> => html # None
        /\ writes <= 1
        /\ writes = Cardinality(files)
        /\ writes = 1 => (html # None /\ leave = "normal" /\ files = {output_file})

\* C19 witness: the plain GET returned an error and fetch has ended with
\* nothing written.
C19_Witness ==
    /\ cmd = "fetch"
    /\ pc = "end"
    /\ strategy = "http"
    /\ html = None
    /\ leave = "return"
    /\ files = {}

\* get_browser() has been called by fetch.
BrowserRequested == Contains(effects, << "get_browser" >>)

\* C20: fetch calls get_browser() exactly when --use-browser is set and the
\* site, if any, resolved: never with --use-browser unset, never for an
\* unresolvable site; a session exists only after such a call whose launch
\* did not fail.  With a site and --use-browser the session is acquired
\* before _fetch_detail is invoked and is the browser the crawler holds, and
\* _fetch_detail is always invoked with the override None.
C20_BrowserOnlyWhenRequested ==
    cmd = "fetch" =>
        /\ ~use_browser => (sessions = 0 /\ ~BrowserRequested)
        /\ (website # None /\ website \in LegacyOnly) =>
             (sessions = 0 /\ ~BrowserRequested)
        /\ sessions > 0 => BrowserRequested
        /\ detailCall.called =>
             /\ detailCall.override = None
             /\ ~use_browser => detailCall.browser = 0
             /\ use_browser =>
                  /\ detailCall.browser = 1
                  /\ sessions = 1
                  /\ \E i, j \in 1..Len(effects) :
                       /\ i < j
                       /\ effects[i] = "get_browser"
                       /\ effects[j] = "fetch_detail"
        /\ pc = "end" =>
             /\ BrowserRequested <=>
                  (use_browser /\ ~(website # None /\ website \in LegacyOnly))
             /\ sessions = 1 <=>
                  (BrowserRequested /\ ~Contains(effects, << "launch_failed" >>))

\* C20 witness: site siteA with --use-browser; _fetch_detail was invoked on
\* a crawler holding the launched session.
C20_Witness ==
    /\ cmd = "fetch"
    /\ website = "siteA"
    /\ use_browser
    /\ detailCall = [called |-> TRUE, browser |-> 1, override |-> None]
    /\ pc = "f_check"

----------------------------------------------------------------------------
(* Properties of the release of the Browser Provider                       *)

\* C13: every execution of close() raises nothing, launches nothing and
\* leaves no session cached or live; executed when no session is cached -
\* none was ever launched, or an earlier close() released it - it changes
\* nothing at all, and the close() at the end of a fetch that never acquired
\* the browser leaves the exit code of its exit path.
C13_CloseIdempotent ==
    [][ closeCalls' # closeCalls =>
          /\ closeCalls' = closeCalls + 1
          /\ raised' = raised
          /\ sessions' = sessions
          /\ browser'[0] = 0
          /\ live' = {}
          /\ browser[0] = 0 => (live' = live /\ browser' = browser)
          /\ (cmd = "fetch" /\ pc = "f_finally") => exitCode' = ExitCodeOf(leave)
      ]_vars

\* C13 witness: a fetch by plain GET, which never acquired the browser, has
\* ended and close() has been executed a second time.
C13_Witness ==
    /\ cmd = "fetch"
    /\ strategy = "http"
    /\ pc = "end"
    /\ sessions = 0
    /\ closeCalls = 2
    /\ raised = "none"
    /\ exitCode = 0

====
